---- MODULE Spec2Model ----
(***************************************************************************)
(* A model of the dividend-history pipeline of suhastj/dividend-calculator *)
(* (StockAnalysisService in src/src/app.module.ts, its merge-less twin in  *)
(* src/src/stock-analysis.service.ts, and DividendsService).               *)
(*                                                                         *)
(* Text is modelled character by character: a JavaScript string is a       *)
(* sequence of one-character strings, so that trimming, CSV quoting,       *)
(* tokenizing, date formatting and the two string orders the code uses     *)
(* (the relational operator > and localeCompare) are computed, not assumed.*)
(***************************************************************************)
EXTENDS Integers, Sequences, FiniteSets, TLC

(***************************************************************************)
(* Characters.                                                             *)
(***************************************************************************)

\* The characters of the model's alphabet in increasing UTF-16 code unit
\* order (the order JavaScript's < and > compare strings by).
CodeUnitOrder ==
  << "\n", " ", "\"", "$", ",", "-", ".", "/",
     "0", "1", "2", "3", "4", "5", "6", "7", "8", "9",
     "A", "B", "C", "D", "E", "F", "G", "H", "I", "J", "K", "L", "M",
     "N", "O", "P", "Q", "R", "S", "T", "U", "V", "W", "X", "Y", "Z",
     "a", "b", "c", "d", "e", "f", "g", "h", "i", "j", "k", "l", "m",
     "n", "o", "p", "q", "r", "s", "t", "u", "v", "w", "x", "y", "z" >>

\* The same characters in increasing primary order of the root collation
\* (whitespace, punctuation, currency, digits, letters regardless of case),
\* the order String.prototype.localeCompare compares by first.
CollationOrder ==
  << "\n", " ", "-", ",", ".", "\"", "/", "$",
     "0", "1", "2", "3", "4", "5", "6", "7", "8", "9",
     "a", "b", "c", "d", "e", "f", "g", "h", "i", "j", "k", "l", "m",
     "n", "o", "p", "q", "r", "s", "t", "u", "v", "w", "x", "y", "z" >>

Chars == { CodeUnitOrder[i] : i \in 1..Len(CodeUnitOrder) }

UpperLetters ==
  << "A", "B", "C", "D", "E", "F", "G", "H", "I", "J", "K", "L", "M",
     "N", "O", "P", "Q", "R", "S", "T", "U", "V", "W", "X", "Y", "Z" >>

LowerOfUpper ==
  << "a", "b", "c", "d", "e", "f", "g", "h", "i", "j", "k", "l", "m",
     "n", "o", "p", "q", "r", "s", "t", "u", "v", "w", "x", "y", "z" >>

IsUpper(c) == \E i \in 1..Len(UpperLetters) : UpperLetters[i] = c

\* String.prototype.toLowerCase on one character.
LowerChar(c) ==
  IF IsUpper(c)
  THEN LowerOfUpper[CHOOSE i \in 1..Len(UpperLetters) : UpperLetters[i] = c]
  ELSE c

\* String.prototype.toUpperCase on one character.
UpperChar(c) ==
  IF \E i \in 1..Len(LowerOfUpper) : LowerOfUpper[i] = c
  THEN UpperLetters[CHOOSE i \in 1..Len(LowerOfUpper) : LowerOfUpper[i] = c]
  ELSE c

CodeUnit ==
  [ c \in Chars |-> CHOOSE i \in 1..Len(CodeUnitOrder) : CodeUnitOrder[i] = c ]

PrimaryWeight ==
  [ c \in Chars |->
      CHOOSE i \in 1..Len(CollationOrder) : CollationOrder[i] = LowerChar(c) ]

\* Tertiary weight: a lower-case letter sorts before its upper-case form.
TertiaryWeight == [ c \in Chars |-> IF IsUpper(c) THEN 1 ELSE 0 ]

IsLetter(c) == c \in Chars /\ PrimaryWeight[c] > PrimaryWeight["9"]

(***************************************************************************)
(* Strings: sequences of characters.                                       *)
(***************************************************************************)

\* The element of a set of one element.  It is applied to sets of the form
\* { e : v \in {x} }, which give the value of x the name v in e.
The(S) == CHOOSE x \in S : TRUE

\* A sequence given as a function on 1..n, as a tuple.
Tuple(f) == f \o <<>>

\* Lexicographic comparison of two strings under a weight function:
\* -1, 0 or 1; a proper prefix is the smaller string.
LexCompare(w, a, b) ==
  The({ LET n == IF Len(x) < Len(y) THEN Len(x) ELSE Len(y)
        IN IF \A i \in 1..n : w[x[i]] = w[y[i]]
           THEN (IF Len(x) < Len(y) THEN -1 ELSE IF Len(x) > Len(y) THEN 1 ELSE 0)
           ELSE The({ IF w[x[i]] < w[y[i]] THEN -1 ELSE 1 :
                      i \in { CHOOSE i \in 1..n :
                                /\ w[x[i]] # w[y[i]]
                                /\ \A j \in 1..(i - 1) : w[x[j]] = w[y[j]] } })
        : x \in {a}, y \in {b} })

\* a > b on strings (app.module.ts line 236): code unit order.
StrGreater(a, b) == LexCompare(CodeUnit, a, b) = 1

\* a.localeCompare(b): primary weights decide; equal primaries are split by
\* case.  Negative, zero or positive as -1, 0, 1.
localeCompare(a, b) ==
  The({ IF p # 0 THEN p ELSE LexCompare(TertiaryWeight, a, b) :
        p \in { LexCompare(PrimaryWeight, a, b) } })

Spaces == { " ", "\n" }

\* The number of characters of s from position from on that are in cs, up
\* to the first that is not.
RunLength(s, from, cs) ==
  IF from > Len(s) THEN 0
  ELSE CHOOSE k \in 0..(Len(s) + 1 - from) :
         /\ \A i \in from..(from + k - 1) : s[i] \in cs
         /\ (from + k > Len(s) \/ s[from + k] \notin cs)

TrimStart(s) ==
  The({ SubSeq(v, RunLength(v, 1, Spaces) + 1, Len(v)) : v \in {s} })

TrimEnd(s) ==
  The({ SubSeq(v, 1, CHOOSE k \in 0..Len(v) :
                       /\ k = 0 \/ v[k] \notin Spaces
                       /\ \A i \in (k + 1)..Len(v) : v[i] \in Spaces)
        : v \in {s} })

\* String.prototype.trim.
Trim(s) == TrimEnd(TrimStart(s))

toUpperCase(s) == The({ Tuple([ i \in 1..Len(v) |-> UpperChar(v[i]) ]) : v \in {s} })
toLowerCase(s) == The({ Tuple([ i \in 1..Len(v) |-> LowerChar(v[i]) ]) : v \in {s} })

\* Concatenation of the strings parts[i], parts[i + 1], ... with a separator.
RECURSIVE JoinFrom(_, _, _)
JoinFrom(parts, sep, i) ==
  IF i > Len(parts) THEN <<>>
  ELSE IF i = Len(parts) THEN parts[i]
  ELSE The({ parts[i] \o sep \o JoinFrom(p, sep, n) : p \in {parts}, n \in {i + 1} })

\* Array.prototype.join.
Join(parts, sep) == The({ JoinFrom(p, sep, 1) : p \in { Tuple(parts) } })

\* The pieces of s between the positions of the set P, which are left out.
SplitAt(s, P) ==
  LET n == Cardinality(P)
      Pos(k) == IF k = 0 THEN 0
                ELSE IF k = n + 1 THEN Len(s) + 1
                ELSE CHOOSE p \in P : Cardinality({ q \in P : q < p }) = k - 1
  IN Tuple([ k \in 1..(n + 1) |-> SubSeq(s, Pos(k - 1) + 1, Pos(k) - 1) ])

\* String.prototype.split on a one-character separator: the pieces between
\* consecutive separators, from the start to the end of the string.
Split(s, sep) ==
  The({ The({ SplitAt(v, P) : P \in { { i \in 1..Len(v) : v[i] = sep } } })
        : v \in {s} })

(***************************************************************************)
(* Record Normalizer: formatDateToIso.                                     *)
(***************************************************************************)

DigitVal(c) == CodeUnit[c] - CodeUnit["0"]

DigitChars == << "0", "1", "2", "3", "4", "5", "6", "7", "8", "9" >>

Digits == { DigitChars[i] : i \in 1..Len(DigitChars) }

Letters == { c \in Chars : IsLetter(c) }

\* The value of the first k characters of a string of decimal digits.
RECURSIVE NumberUpTo(_, _)
NumberUpTo(s, k) ==
  IF k = 0 THEN 0 ELSE 10 * NumberUpTo(s, k - 1) + DigitVal(s[k])

\* The value of a string of decimal digits.
NumberOf(s) == The({ NumberUpTo(v, Len(v)) : v \in {s} })

\* String(n) for a natural number n.
RECURSIVE NumberToString(_)
NumberToString(n) ==
  IF n < 10 THEN << DigitChars[n + 1] >>
  ELSE The({ NumberToString(q) \o << DigitChars[(n % 10) + 1] >> : q \in { n \div 10 } })

\* String.prototype.padStart(2, '0').
padStart2(s) == The({ IF Len(v) < 2 THEN << "0" >> \o v ELSE v : v \in {s} })

\* The month names new Date() knows, by their first three letters.
MonthNames ==
  << <<"j","a","n">>, <<"f","e","b">>, <<"m","a","r">>, <<"a","p","r">>,
     <<"m","a","y">>, <<"j","u","n">>, <<"j","u","l">>, <<"a","u","g">>,
     <<"s","e","p">>, <<"o","c","t">>, <<"n","o","v">>, <<"d","e","c">> >>

IsLeapYear(y) == (y % 4 = 0 /\ y % 100 # 0) \/ y % 400 = 0

DaysInMonth(y, m) ==
  IF m = 2 THEN (IF IsLeapYear(y) THEN 29 ELSE 28)
  ELSE IF m \in {4, 6, 9, 11} THEN 30 ELSE 31

NaN == [valid |-> FALSE]

\* The date of month m, day d, year digits y0 (a one- or two-digit year
\* is 20xx below 50 and 19xx from 50); a day past the end of the month
\* rolls into the next month.
DateOf(m, d, y0, yearLen) ==
  The({ The({ IF d <= dim
              THEN [valid |-> TRUE, year |-> y, month |-> m, day |-> d]
              ELSE IF m = 12
              THEN [valid |-> TRUE, year |-> y + 1, month |-> 1, day |-> d - dim]
              ELSE [valid |-> TRUE, year |-> y, month |-> m + 1, day |-> d - dim]
              : dim \in { DaysInMonth(y, m) } })
        : y \in { IF yearLen <= 2
                  THEN (IF y0 < 50 THEN 2000 + y0 ELSE 1900 + y0)
                  ELSE y0 } })

\* The text t read as: w letters, s white-space characters, d digits (the
\* day), a comma, g white-space characters, y digits (the year), the end.
DateOfShape(t, w, s, d, g, y) ==
  The({ IF /\ mIdx # {}
           /\ s >= 1
           /\ d \in {1, 2}
           /\ w + s + d + 1 <= Len(t)
           /\ t[w + s + d + 1] = ","
           /\ y \in 1..4
           /\ w + s + d + 1 + g + y = Len(t)
        THEN The({ IF day \in 1..31
                   THEN DateOf(CHOOSE m \in mIdx : TRUE, day,
                               NumberOf(SubSeq(t, w + s + d + 2 + g, Len(t))), y)
                   ELSE NaN
                   : day \in { NumberOf(SubSeq(t, w + s + 1, w + s + d)) } })
        ELSE NaN
        : mIdx \in { { m \in 1..12 :
                         w >= 3 /\ toLowerCase(SubSeq(t, 1, 3)) = MonthNames[m] } } })

\* new Date(text) for the texts of the source document: a month name, a
\* day of one or two digits, a comma and a year ("Oct 31, 2025"), read in
\* local time.  A day past the end of the month rolls into the next month
\* (V8: "Feb 30, 2025" is Mar 2); a day outside 1..31 and every other text
\* of the model's inputs is an invalid date.
ParseDate(text) ==
  The({ The({ The({ The({ The({ The({ DateOfShape(t, w, s, d, g, y)
    : y \in { RunLength(t, w + s + d + 2 + g, Digits) } })
    : g \in { RunLength(t, w + s + d + 2, Spaces) } })
    : d \in { RunLength(t, w + s + 1, Digits) } })
    : s \in { RunLength(t, w + 1, Spaces) } })
    : w \in { RunLength(t, 1, Letters) } })
    : t \in {text} })

\* formatDateToIso (app.module.ts lines 111-133).
formatDateToIso(dateStr) ==
  The({ IF v = <<>> \/ Trim(v) = <<>> THEN v
        ELSE The({ IF ~date.valid THEN v
                   ELSE NumberToString(date.year) \o << "-" >>
                          \o padStart2(NumberToString(date.month)) \o << "-" >>
                          \o padStart2(NumberToString(date.day))
                   : date \in { ParseDate(Trim(v)) } })
        : v \in {dateStr} })

(***************************************************************************)
(* Delimited-Text Codec: saveToCsv, readExistingCsv, parseCsvLine.         *)
(***************************************************************************)

\* A DividendHistory value.
Dividend(ex, cash, rec, pay) ==
  [exDividendDate |-> ex, cashAmount |-> cash, recordDate |-> rec, payDate |-> pay]

Includes(s, c) == \E v \in {s} : \E i \in 1..Len(v) : v[i] = c

\* value.replace(/"/g, '""')
DoubleQuotes(s) ==
  The({ The({ Join(SplitAt(v, P), << "\"", "\"" >>) :
              P \in { { i \in 1..Len(v) : v[i] = "\"" } } })
        : v \in {s} })

\* escapeCsv (lines 378-383).
escapeCsv(value) ==
  The({ IF Includes(v, ",") \/ Includes(v, "\"") \/ Includes(v, "\n")
        THEN << "\"" >> \o DoubleQuotes(v) \o << "\"" >>
        ELSE v
        : v \in {value} })

CsvHeader ==
  << "E","x","-","D","i","v","i","d","e","n","d"," ","D","a","t","e",",",
     "C","a","s","h"," ","A","m","o","u","n","t",",",
     "R","e","c","o","r","d"," ","D","a","t","e",",",
     "P","a","y"," ","D","a","t","e","\n" >>

CsvRow(d) ==
  Join(<< escapeCsv(d.exDividendDate), escapeCsv(d.cashAmount),
          escapeCsv(d.recordDate), escapeCsv(d.payDate) >>, << "," >>)

\* The text saveToCsv writes (lines 372-393): the header line, then the
\* rows joined by newlines, no newline after the last.
csvContent(dividends) ==
  The({ CsvHeader \o Join([ i \in 1..Len(v) |-> CsvRow(v[i]) ], << "\n" >>)
        : v \in {dividends} })

\* parseCsvLine (lines 197-220) from character i on: state is the values
\* so far, the current value and the inside-quotes flag.
RECURSIVE ParseCsvFrom(_, _, _, _, _)
ParseCsvFrom(line, i, values, current, inQuotes) ==
  IF i > Len(line)
  THEN IF current # <<>> THEN Append(values, Trim(current)) ELSE values
  ELSE The({ ParseCsvFrom(l, n, vs, cur, q) :
             l \in {line},
             n \in {i + 1},
             vs \in { IF line[i] = "," /\ ~inQuotes
                      THEN Append(values, Trim(current))
                      ELSE values },
             cur \in { IF line[i] = "\"" THEN current
                       ELSE IF line[i] = "," /\ ~inQuotes THEN <<>>
                       ELSE Append(current, line[i]) },
             q \in { IF line[i] = "\"" THEN ~inQuotes ELSE inQuotes } })

parseCsvLine(line) ==
  The({ ParseCsvFrom(l, 1, <<>>, <<>>, FALSE) : l \in {line} })

NonBlank(line) == Trim(line) # <<>>

\* content.split('\n').filter(line => line.trim())
NonBlankLines(content) == SelectSeq(Split(content, "\n"), NonBlank)

HasFourValues(values) == Len(values) >= 4

\* The loop of readExistingCsv over the data lines (lines 172-186).
ParseCsvRows(lines) ==
  The({ Tuple([ k \in 1..Len(kept) |->
                  Dividend(kept[k][1], kept[k][2], kept[k][3], kept[k][4]) ])
        : kept \in { SelectSeq([ k \in 1..Len(lines) |-> parseCsvLine(Trim(lines[k])) ],
                               HasFourValues) } })

\* The decoding of a file's text in readExistingCsv (lines 164-188).
parseCsvContent(content) ==
  The({ IF Len(lines) < 2 THEN <<>> ELSE ParseCsvRows(Tail(lines))
        : lines \in { NonBlankLines(content) } })

(***************************************************************************)
(* Merge Engine: mergeDividends.                                           *)
(***************************************************************************)

\* The comparator of every sort in the service:
\* (a, b) => b.exDividendDate.localeCompare(a.exDividendDate).
\* Positive when a must come after b.
byDateDescending(a, b) == localeCompare(b.exDividendDate, a.exDividendDate)

\* In a stable sort of list, the number of elements that come before
\* element i: those the comparator puts before it, and its equals that
\* stand before it in list.
Rank(list, i) ==
  Cardinality({ j \in 1..Len(list) :
                  \E c \in { byDateDescending(list[j], list[i]) } :
                    c < 0 \/ (c = 0 /\ j < i) })

\* A list left in the order it has.
Unsorted(list) == list

\* Array.prototype.sort with byDateDescending: a stable sort.
SortDescending(list) ==
  The({ The({ Tuple([ r \in 1..Len(v) |-> v[CHOOSE i \in 1..Len(v) : rank[i] = r - 1] ])
              : rank \in { Tuple([ i \in 1..Len(v) |-> Rank(v, i) ]) } })
        : v \in {list} })

\* A cutoff that also admits a record dated as the latest existing one.
IsNewerOrSame(d, latestExistingDate) ==
  \/ StrGreater(d.exDividendDate, latestExistingDate)
  \/ d.exDividendDate = latestExistingDate

\* The filter of line 236: d.exDividendDate > latestExistingDate.
IsNewer(d, latestExistingDate) == StrGreater(d.exDividendDate, latestExistingDate)

\* A merge that leaves a first-time harvest in the order of the page.
mergeDividendsUnsortedFirst(existing, newData) ==
  IF Len(existing) = 0
  THEN newData
  ELSE The({ SortDescending((SelectSeq(n, LAMBDA d : IsNewer(d, e[1].exDividendDate))) \o e)
             : e \in {existing}, n \in {newData} })

\* mergeDividends (lines 226-241).
mergeDividends(existing, newData) ==
  The({ IF Len(e) = 0
        THEN SortDescending(n)
        ELSE LET latestExistingDate == e[1].exDividendDate
                 Newer(d) == IsNewer(d, latestExistingDate)
                 newerEntries == SelectSeq(n, Newer)
                 merged == newerEntries \o e
             IN SortDescending(merged)
        : e \in {existing}, n \in {newData} })

(***************************************************************************)
(* History Harvester: the extraction of rows from the fetched document.    *)
(* A document is a sequence of tables; a table says whether it sits in a   *)
(* table-wrap container and holds its body rows; a row is the sequence of  *)
(* the texts of its cells.                                                 *)
(***************************************************************************)

Table(wrapped, rows) == [wrapped |-> wrapped, rows |-> rows]

\* /[A-Za-z]{3}\s+\d{1,2},\s+\d{4}/.test(s): a match may start anywhere.
\* p is where the three letters start, a the first white-space character,
\* b the first digit of the day, c the comma, e the first digit of the year.
HasDatePattern(s) ==
  \E v \in {s} :
    \E p \in 1..Len(v) :
      /\ p + 2 <= Len(v)
      /\ \A i \in p..(p + 2) : v[i] \in Letters
      /\ \E a \in {p + 3} : \E b \in (a + 1)..Len(v) :
           /\ \A i \in a..(b - 1) : v[i] \in Spaces
           /\ \E c \in {b + 1, b + 2} :
                /\ c <= Len(v)
                /\ \A i \in b..(c - 1) : v[i] \in Digits
                /\ v[c] = ","
                /\ \E e \in (c + 2)..Len(v) :
                     /\ \A i \in (c + 1)..(e - 1) : v[i] \in Spaces
                     /\ e + 3 <= Len(v)
                     /\ \A i \in e..(e + 3) : v[i] \in Digits

\* /\$?\d+\.\d+/.test(s): a digit, a dot and a digit somewhere.
HasAmountPattern(s) ==
  \E v \in {s} :
    \E i \in 1..(Len(v) - 2) :
      v[i] \in Digits /\ v[i + 1] = "." /\ v[i + 2] \in Digits

\* The record built from a row's first four cells (lines 287-292).
RowRecord(row) ==
  Dividend(formatDateToIso(Trim(row[1])), Trim(row[2]),
           formatDateToIso(Trim(row[3])), formatDateToIso(Trim(row[4])))

\* Primary strategy's test of a row (lines 279-286).
PrimaryKeeps(row) ==
  Len(row) >= 4 /\ Trim(row[1]) # <<>> /\ Trim(row[2]) # <<>>

\* Fallback strategy's test of a row (lines 302-312).
FallbackKeeps(row) ==
  Len(row) >= 4 /\ HasDatePattern(Trim(row[1])) /\ HasAmountPattern(Trim(row[2]))

\* The body rows of the tables from table i on, in document order.
RECURSIVE RowsFrom(_, _)
RowsFrom(tables, i) ==
  IF i > Len(tables) THEN <<>>
  ELSE The({ tables[i].rows \o RowsFrom(t, n) : t \in {tables}, n \in {i + 1} })

RowsOf(tables) == The({ RowsFrom(t, 1) : t \in {tables} })

Records(rows) ==
  The({ Tuple([ i \in 1..Len(v) |-> RowRecord(v[i]) ]) : v \in {rows} })

IsWrapped(t) == t.wrapped

primaryExtraction(doc) ==
  Records(SelectSeq(RowsOf(SelectSeq(doc, IsWrapped)), PrimaryKeeps))

fallbackExtraction(doc) ==
  Records(SelectSeq(RowsOf(doc), FallbackKeeps))

\* An extraction that runs both strategies in every case.
extractDividendsBoth(doc) == primaryExtraction(doc) \o fallbackExtraction(doc)

\* The dividends array after both strategies (lines 269-322).
extractDividends(doc) ==
  The({ IF Len(primary) = 0 THEN fallbackExtraction(doc) ELSE primary
        : primary \in { primaryExtraction(doc) } })

(***************************************************************************)
(* Batch Orchestrator: the manifest.                                       *)
(***************************************************************************)

BadRequestException(message) ==
  [name |-> "BadRequestException", message |-> message]

InternalServerErrorException(message) ==
  [name |-> "InternalServerErrorException", message |-> message]

NoError == [name |-> "", message |-> ""]

\* A file that is not there (readFile and access reject).
Missing == << "ENOENT" >>

NonEmpty(s) == Len(s) > 0

\* The loop of readTickersFromCsv over the data lines (lines 417-428): the
\* first column of each, trimmed, if it is not empty.
FirstColumns(lines) ==
  The({ SelectSeq([ k \in 1..Len(v) |-> Trim(Split(Trim(v[k]), ",")[1]) ], NonEmpty)
        : v \in {lines} })

\* A test that lets a manifest of one line through.
NoLines(lines) == Len(lines) < 1

\* The test of line 410: lines.length < 2, blank lines not counted.
TooFewLines(lines) == Len(lines) < 2

\* readTickersFromCsv (lines 404-439) on the manifest's content: the
\* tickers, or the exception thrown.
readTickersFromCsv(content) ==
  IF content = Missing
  THEN [threw |-> TRUE,
        error |-> BadRequestException("Failed to read CSV file: ENOENT"),
        tickers |-> <<>>]
  ELSE The({ IF TooFewLines(lines)
             THEN [threw |-> TRUE,
                   error |-> BadRequestException(
                     "CSV file must have at least a header and one data row"),
                   tickers |-> <<>>]
             ELSE [threw |-> FALSE, error |-> NoError,
                   tickers |-> FirstColumns(Tail(lines))]
             : lines \in { NonBlankLines(content) } })

(***************************************************************************)
(* The inputs of the model: tickers, cell texts, documents, upstream       *)
(* responses, directories and manifests.                                   *)
(***************************************************************************)

SPY == << "S", "P", "Y" >>
spy == << "s", "p", "y" >>
QQQ == << "Q", "Q", "Q" >>

\* Every ticker a request of the model names; the empty string is the
\* missing ticker.
Tickers == { SPY, spy, QQQ, <<>> }

Sep1 == << "S", "e", "p", " ", "1", ",", " ", "2", "0", "2", "5" >>
Oct1 == << "O", "c", "t", " ", "1", ",", " ", "2", "0", "2", "5" >>
Nov1 == << "N", "o", "v", " ", "1", ",", " ", "2", "0", "2", "5" >>
Amount50 == << "$", "0", ".", "5" >>
Amount75 == << "$", "0", ".", "7" >>

\* A table row of four cells; the cell texts carry the white space of the
\* markup around them.
Row(ex, cash, rec, pay) == << ex, << " " >> \o cash, rec, pay \o << "\n" >> >>

\* The page as first served: October and September, newest first.
DocOld == << Table(TRUE, << Row(Oct1, Amount50, Oct1, Oct1),
                            Row(Sep1, Amount50, Sep1, Sep1) >>) >>

\* The page later: November is new, September is no longer served, and the
\* rows are not in date order.
DocNew == << Table(TRUE, << Row(Oct1, Amount50, Oct1, Oct1),
                            Row(Nov1, Amount75, Nov1, Nov1) >>) >>

\* A page whose newest row has no pay date yet.
DocNoPay == << Table(TRUE, << Row(Nov1, Amount75, Nov1, <<>>),
                              Row(Oct1, Amount50, Oct1, Oct1) >>) >>

\* A page with two distributions on one ex-dividend date.
DocTwice == << Table(TRUE, << Row(Oct1, Amount50, Oct1, Oct1),
                              Row(Oct1, Amount75, Oct1, Oct1) >>) >>

\* A page whose table sits in no table-wrap container.
DocPlain == << Table(FALSE, << Row(Oct1, Amount50, Oct1, Oct1),
                               Row(Sep1, Amount50, Sep1, Sep1) >>) >>

\* A page with no dividend row: an empty wrapped table and a two-cell row.
DocNoRows == << Table(TRUE, <<>>), Table(FALSE, << << Oct1, Amount50 >> >>) >>

\* What axios.get settles with: a document, or a rejection with the
\* response status (0: no response at all) and the error's message.
Fetched(doc) == [ok |-> TRUE, doc |-> doc, status |-> 200, message |-> ""]
Rejected(status, message) ==
  [ok |-> FALSE, doc |-> <<>>, status |-> status, message |-> message]

NotFound404 == Rejected(404, "Request failed with status code 404")
ServerError500 == Rejected(500, "Request failed with status code 500")
TimedOut == Rejected(0, "timeout of 15000ms exceeded")
NoMessage == Rejected(0, "")

\* outputDir absent (the single-ticker route passes none).
NoOutputDir == ""
DefaultDir == "src/data"
BatchDir == "src/data/yieldmax/other"

\* baseDir of csvExists, readExistingCsv and saveToCsv, relative to cwd.
BaseDirOf(outputDir) == IF outputDir # NoOutputDir THEN outputDir ELSE DefaultDir

\* A file name that every ticker shares.
FilePathShared(ticker, outputDir) ==
  [dir |-> BaseDirOf(outputDir), name |-> << "s", "p", "y" >>]

\* The file of a ticker (lines 140-144, 157-161, 364-370).
FilePathOf(ticker, outputDir) ==
  [dir |-> BaseDirOf(outputDir), name |-> toLowerCase(ticker)]

FilePaths ==
  { [dir |-> d, name |-> toLowerCase(t)] :
      d \in {DefaultDir, BatchDir}, t \in Tickers \ {<<>>} }

\* The keys of the cache Map that the model's requests can name.
CacheKeys == (Tickers \ {<<>>}) \cup { toUpperCase(t) : t \in Tickers \ {<<>>} }

ManifestHeader == << "T", "i", "c", "k", "e", "r", ",", "N", "a", "m", "e" >>

\* The manifests on disk, by path.
ManifestFiles ==
  [ csvFilePath \in {"three.csv", "one.csv", "noticker.csv", "header.csv",
                     "empty.csv", "absent.csv"} |->
      CASE csvFilePath = "three.csv" ->
             ManifestHeader \o << "\n" >> \o SPY \o << ",", "a", "\n" >>
               \o QQQ \o << ",", "b", "\n", "\n", " " >> \o spy \o << "\n" >>
        [] csvFilePath = "one.csv" -> ManifestHeader \o << "\n" >> \o SPY
        [] csvFilePath = "noticker.csv" ->
             ManifestHeader \o << "\n", " ", ",", "a" >>
        [] csvFilePath = "header.csv" -> ManifestHeader \o << "\n", " ", "\n" >>
        [] csvFilePath = "empty.csv" -> <<>>
        [] OTHER -> Missing ]

(***************************************************************************)
(* State.                                                                  *)
(***************************************************************************)

VARIABLES
  clock,        \* Date.now(), in units of ten minutes
  cache,        \* StockAnalysisService.cache: upper-cased ticker -> entry
  files,        \* the history files: path -> text, or Missing
  req,          \* the calls in flight: slot -> the locals and position of a call
  lastHarvest,  \* history: upper-cased ticker -> the time its entry was stored
  apiCache,     \* DividendsService.cache: key -> entry
  apiReq,       \* the getDividends call in flight
  input,        \* the arguments of a function under test
  output        \* its result

serviceVars == << clock, cache, files, req, lastHarvest >>
apiVars == << apiCache, apiReq >>
functionVars == << input, output >>
vars == << clock, cache, files, req, lastHarvest, apiCache, apiReq, input, output >>

\* StockAnalysisService.defaultTtlMs, one hour, in units of ten minutes.
defaultTtlMs == 6

\* cache.get(key) of a key never set.
NoEntry == [present |-> FALSE, expiresAtMs |-> 0, data |-> <<>>]

CacheEntry(expiresAtMs, data) ==
  [present |-> TRUE, expiresAtMs |-> expiresAtMs, data |-> data]

\* A lookup that takes no entry for fresh.
NeverFresh(cached, now) == FALSE

\* A lookup that takes an entry for fresh up to and at its expiry time.
IsFreshAtExpiry(cached, now) == cached.present /\ cached.expiresAtMs >= now

\* The test of both services' cache lookups:  cached && cached.expiresAtMs > now
IsFresh(cached, now) == cached.present /\ cached.expiresAtMs > now

NoResponse == [ok |-> FALSE, doc |-> <<>>, status |-> 0, message |-> "none"]

\* A slot with no call: the locals of getDividendHistory and of
\* processTickersFromCsv, and what the call settled with.
\*   pc        where the call is suspended: "fetch" (axios.get), "access"
\*             (csvExists), "read" (readExistingCsv), "save" (saveToCsv on a
\*             miss), "hitSave" (saveToCsv on a hit), or settled: "returned",
\*             "threw"
\*   branch    the cache branch the current getDividendHistory call took
\*   response  what axios.get settled with in the current call
\*   readFailed  readExistingCsv went through its catch (lines 189-191)
\*   opened    writeFile has opened the file and not yet written to it
\*   landed    writeFile has written its text and not yet resolved
\*   log       one entry per settled getDividendHistory call of this request
IdleRequest ==
  [ pc |-> "idle", kind |-> "none",
    ticker |-> <<>>, outputDir |-> NoOutputDir, now |-> 0, cached |-> NoEntry,
    branch |-> "", response |-> NoResponse, dividends |-> <<>>,
    csvFileExists |-> FALSE, existingData |-> <<>>, readFailed |-> FALSE,
    finalDividends |-> <<>>, opened |-> FALSE, landed |-> FALSE,
    csvFilePath |-> "", batchDir |-> NoOutputDir, tickers |-> <<>>, i |-> 0,
    results |-> <<>>,
    result |-> <<>>, error |-> NoError, log |-> <<>> ]

Settled(q) == q.pc \in {"idle", "returned", "threw"}

SuccessOutcome(ticker) == [ticker |-> ticker, success |-> TRUE]

\* A catch that records the failed ticker as a success.
FailureAsSuccess(ticker, error) == SuccessOutcome(ticker)

\* The catch of processTickersFromCsv's loop (lines 455-457).
FailureOutcome(ticker, error) ==
  [ ticker |-> ticker, success |-> FALSE,
    error |-> IF error.message # "" THEN error.message ELSE "Unknown error" ]

\* A key that keeps the ticker's letter case.
TickerAsGiven(ticker) == ticker

\* tickerUpper (line 248): the cache key and the ticker saveToCsv is given.
TickerUpper(ticker) == toUpperCase(ticker)

\* A loop that stays at a ticker whose harvest failed.
RetryFailed(i, threw) == IF threw THEN i ELSE i + 1

\* for (const ticker of tickers) (line 451): after the ticker at index i,
\* harvested or failed, the loop goes to the next one.
NextTicker(i, threw) == i + 1

\* getDividendHistory up to its first suspension (lines 243-267), called in
\* request q with the cache c at time t; and what follows when a
\* getDividendHistory call settles: the request is over, or the batch loop
\* (lines 451-462) records the outcome and calls for the next ticker.
RECURSIVE Call(_, _, _, _, _), Settle(_, _, _, _, _, _)
Call(q, ticker, outputDir, c, t) ==
  LET q0 == [q EXCEPT !.ticker = ticker, !.outputDir = outputDir, !.now = t,
                      !.cached = NoEntry, !.branch = "", !.response = NoResponse,
                      !.dividends = <<>>, !.csvFileExists = FALSE,
                      !.existingData = <<>>, !.readFailed = FALSE,
                      !.finalDividends = <<>>, !.opened = FALSE,
                      !.landed = FALSE]
  IN IF ticker = <<>>
     THEN Settle(q0, TRUE, <<>>, BadRequestException("ticker is required"), c, t)
     ELSE LET tickerUpper == TickerUpper(ticker)
              cached == c[tickerUpper]
              q1 == [q0 EXCEPT !.cached = cached]
          IN IF IsFresh(cached, t)
             THEN IF outputDir # NoOutputDir
                  THEN [q1 EXCEPT !.pc = "hitSave", !.branch = "hit"]
                  ELSE Settle([q1 EXCEPT !.branch = "hit"], FALSE, cached.data,
                              NoError, c, t)
             ELSE [q1 EXCEPT !.pc = "fetch", !.branch = "miss"]

Settle(q, threw, value, error, c, t) ==
  LET entry == [ticker |-> q.ticker, branch |-> q.branch, threw |-> threw]
      q0 == [q EXCEPT !.log = Append(@, entry), !.dividends = <<>>,
                      !.csvFileExists = FALSE, !.finalDividends = <<>>,
                      !.opened = FALSE, !.landed = FALSE]
  IN IF q.kind = "single"
     THEN [q0 EXCEPT !.pc = IF threw THEN "threw" ELSE "returned",
                     !.result = value, !.error = error]
     ELSE LET outcome == IF threw THEN FailureOutcome(q.ticker, error)
                         ELSE SuccessOutcome(q.ticker)
              q1 == [q0 EXCEPT !.results = Append(@, outcome),
                               !.i = NextTicker(@, threw)]
          IN IF q1.i > Len(q1.tickers)
             THEN [q1 EXCEPT !.pc = "returned", !.result = q1.results]
             ELSE Call(q1, q1.tickers[q1.i], q1.batchDir, c, t)

(***************************************************************************)
(* StockAnalysisService: the steps of a request.  A step runs from one     *)
(* suspension (await) to the next.                                         *)
(***************************************************************************)

\* The throw of lines 324-328.
ExtractionError ==
  InternalServerErrorException("Could not find dividend history table on the page")

\* A catch that takes every rejection for an upstream failure.
FetchErrorNo404(response) ==
  InternalServerErrorException(
    IF response.message # "" THEN response.message
    ELSE "Failed to fetch dividend history from stockanalysis.com")

\* The catch of lines 349-359 on a rejected axios.get.  (The 404 message
\* quotes the ticker; the model keeps the rest of it.)
FetchError(response) ==
  IF response.status = 404
  THEN BadRequestException("ETF ticker not found on stockanalysis.com")
  ELSE InternalServerErrorException(
         IF response.message # "" THEN response.message
         ELSE "Failed to fetch dividend history from stockanalysis.com")

\* GET /dividends/:ticker/stockanalysis, or any direct call.
GetDividendHistory(r, ticker, outputDir) ==
  /\ Settled(req[r])
  /\ req' = [req EXCEPT ![r] =
       Call([IdleRequest EXCEPT !.kind = "single"], ticker, outputDir, cache, clock)]
  /\ UNCHANGED << clock, cache, files, lastHarvest, apiVars, functionVars >>

\* processTickersFromCsv up to the first ticker's first suspension
\* (lines 448-453).
ProcessTickersFromCsv(r, csvFilePath, outputDir) ==
  /\ Settled(req[r])
  /\ LET read == readTickersFromCsv(ManifestFiles[csvFilePath])
         q == [IdleRequest EXCEPT !.kind = "batch", !.csvFilePath = csvFilePath,
                                  !.batchDir = outputDir, !.tickers = read.tickers,
                                  !.i = 1]
     IN req' = [req EXCEPT ![r] =
          IF read.threw THEN [q EXCEPT !.pc = "threw", !.error = read.error]
          ELSE IF Len(read.tickers) = 0 THEN [q EXCEPT !.pc = "returned"]
          ELSE Call(q, read.tickers[1], outputDir, cache, clock)]
  /\ UNCHANGED << clock, cache, files, lastHarvest, apiVars, functionVars >>

\* axios.get settles (lines 261-328 and the catch): the rows are extracted,
\* or the call throws.
FetchSettles(r, response) ==
  /\ req[r].pc = "fetch"
  /\ LET q == [req[r] EXCEPT !.response = response]
         dividends == extractDividends(response.doc)
     IN req' = [req EXCEPT ![r] =
          IF ~response.ok THEN Settle(q, TRUE, <<>>, FetchError(response), cache, clock)
          ELSE IF Len(dividends) = 0
          THEN Settle(q, TRUE, <<>>, ExtractionError, cache, clock)
          ELSE [q EXCEPT !.pc = "access", !.dividends = dividends]]
  /\ UNCHANGED << clock, cache, files, lastHarvest, apiVars, functionVars >>

\* csvExists settles (lines 331-342).
AccessSettles(r) ==
  /\ req[r].pc = "access"
  /\ LET q == req[r]
         csvFileExists == files[FilePathOf(TickerUpper(q.ticker), q.outputDir)] # Missing
     IN req' = [req EXCEPT ![r] =
          IF csvFileExists
          THEN [q EXCEPT !.pc = "read", !.csvFileExists = TRUE]
          ELSE [q EXCEPT !.pc = "save",
                         !.finalDividends = SortDescending(q.dividends)]]
  /\ UNCHANGED << clock, cache, files, lastHarvest, apiVars, functionVars >>

\* readExistingCsv (lines 155-192): the decoded history, or after a
\* rejected readFile the empty history of the catch.
readExistingCsv(content, readable) ==
  IF readable /\ content # Missing THEN parseCsvContent(content) ELSE <<>>

\* readExistingCsv settles (lines 336-338): readable says whether readFile
\* delivered the file's text.
ReadSettles(r, readable) ==
  /\ req[r].pc = "read"
  /\ LET q == req[r]
         content == files[FilePathOf(TickerUpper(q.ticker), q.outputDir)]
         existingData == readExistingCsv(content, readable)
     IN req' = [req EXCEPT ![r] =
          [q EXCEPT !.pc = "save",
                    !.existingData = existingData,
                    !.readFailed = ~readable \/ content = Missing,
                    !.finalDividends = mergeDividends(existingData, q.dividends)]]
  /\ UNCHANGED << clock, cache, files, lastHarvest, apiVars, functionVars >>

\* A saveToCsv that merges the records into what the file holds.
saveToCsvMerging(fs, ticker, dividends, outputDir, written) ==
  IF written
  THEN [fs EXCEPT ![FilePathOf(ticker, outputDir)] =
          csvContent(mergeDividends(
            IF @ = Missing THEN <<>> ELSE parseCsvContent(@), dividends))]
  ELSE fs

\* saveToCsv: the file after the write, which fails without a trace when
\* written is false (lines 362-399).
saveToCsv(fs, ticker, dividends, outputDir, written) ==
  IF written
  THEN [fs EXCEPT ![FilePathOf(ticker, outputDir)] = csvContent(dividends)]
  ELSE fs

\* writeFile (line 394) is not one step of the file system: it opens the
\* file with flag 'w', which empties it, and then writes the text from the
\* file's start.  This is the open, when another caller can see or write
\* the file before the text is written.
WriteOpens(r) ==
  /\ req[r].pc \in {"save", "hitSave"}
  /\ ~req[r].opened
  /\ files' = [files EXCEPT ![FilePathOf(TickerUpper(req[r].ticker), req[r].outputDir)] = <<>>]
  /\ req' = [req EXCEPT ![r].opened = TRUE]
  /\ UNCHANGED << clock, cache, lastHarvest, apiVars, functionVars >>

\* The write of writeFile after its open: the text replaces the file's
\* first characters; what another writer put beyond them stays.
WriteOver(old, text) ==
  The({ t \o SubSeq(o, Len(t) + 1, Len(o)) : o \in {old}, t \in {text} })

\* The write of writeFile reaches the file.  The promise resolves later,
\* after the close, and only then does the caller go on (to line 347 on a
\* miss): in between another caller's write can reach the file and its
\* promise resolve.
WriteLands(r) ==
  /\ req[r].pc \in {"save", "hitSave"}
  /\ req[r].opened /\ ~req[r].landed
  /\ files' = [files EXCEPT ![FilePathOf(TickerUpper(req[r].ticker), req[r].outputDir)] =
       WriteOver(@, csvContent(IF req[r].pc = "save" THEN req[r].finalDividends
                               ELSE req[r].cached.data))]
  /\ req' = [req EXCEPT ![r].landed = TRUE]
  /\ UNCHANGED << clock, cache, lastHarvest, apiVars, functionVars >>

\* The files after the saveToCsv of request q settles.
FilesSaved(fs, q, dividends, written) ==
  IF q.landed
  THEN fs
  ELSE IF ~q.opened
  THEN saveToCsv(fs, TickerUpper(q.ticker), dividends, q.outputDir, written)
  ELSE IF written
  THEN [fs EXCEPT ![FilePathOf(TickerUpper(q.ticker), q.outputDir)] =
          WriteOver(@, csvContent(dividends))]
  ELSE fs

\* A saveToCsv without its catch: a failed write rejects the call.
saveToCsvRethrows(written) == ~written

\* Whether the promise of saveToCsv rejects: never, the catch of lines
\* 395-398 logs the failed write and the call resolves.
saveToCsvRejects(written) == FALSE

\* What a rejected writeFile carries.
WriteError == [name |-> "Error", message |-> "EACCES: permission denied"]

\* saveToCsv settles on the miss path: the entry is stored and the history
\* returned (lines 345-348); a rejection would go to the catch of lines
\* 349-359.
SaveSettles(r, written) ==
  /\ req[r].pc = "save"
  /\ LET q == req[r]
         tickerUpper == TickerUpper(q.ticker)
         stored == [cache EXCEPT ![tickerUpper] =
                      CacheEntry(q.now + defaultTtlMs, q.finalDividends)]
     IN /\ files' = FilesSaved(files, q, q.finalDividends, written)
        /\ IF saveToCsvRejects(written)
           THEN /\ UNCHANGED << cache, lastHarvest >>
                /\ req' = [req EXCEPT ![r] =
                     Settle(q, TRUE, <<>>,
                            InternalServerErrorException(WriteError.message),
                            cache, clock)]
           ELSE /\ cache' = stored
                /\ lastHarvest' = [lastHarvest EXCEPT ![tickerUpper] = clock]
                /\ req' = [req EXCEPT ![r] =
                     Settle(q, FALSE, q.finalDividends, NoError, stored, clock)]
  /\ UNCHANGED << clock, apiVars, functionVars >>

\* saveToCsv settles on the hit path (lines 253-256), which no try encloses.
HitSaveSettles(r, written) ==
  /\ req[r].pc = "hitSave"
  /\ LET q == req[r]
     IN /\ files' = FilesSaved(files, q, q.cached.data, written)
        /\ req' = [req EXCEPT ![r] =
             IF saveToCsvRejects(written)
             THEN Settle(q, TRUE, <<>>, WriteError, cache, clock)
             ELSE Settle(q, FALSE, q.cached.data, NoError, cache, clock)]
  /\ UNCHANGED << clock, cache, lastHarvest, apiVars, functionVars >>

\* Time passes.
Tick(d, max) ==
  /\ clock + d <= max
  /\ clock' = clock + d
  /\ UNCHANGED << cache, files, req, lastHarvest, apiVars, functionVars >>

(***************************************************************************)
(* DividendsService.getDividends (unnamed/part_000).                       *)
(***************************************************************************)

\* DividendsService.defaultTtlMs, ten minutes.
apiDefaultTtlMs == 1

ApiIdle == [pc |-> "idle", key |-> "", now |-> 0, cached |-> NoEntry,
            branch |-> "", result |-> "", error |-> NoError]

ApiKeys == { "SPY|2025-01-01|2025-12-31", "QQQ|2025-01-01|2025-12-31" }

\* getDividends up to axios.get (lines 11-44).  The key is
\* ticker|fromDate|toDate; hasApiKey says whether FINNHUB_API_KEY is set.
GetDividends(key, hasApiKey) ==
  /\ apiReq.pc # "fetch"
  /\ LET cached == apiCache[key]
         q == [ApiIdle EXCEPT !.key = key, !.now = clock]
     IN apiReq' =
          IF ~hasApiKey
          THEN [q EXCEPT !.pc = "threw",
                         !.error = BadRequestException("FINNHUB_API_KEY env var is not set")]
          ELSE IF IsFresh(cached, clock)
          THEN [q EXCEPT !.pc = "returned", !.cached = cached, !.branch = "hit",
                         !.result = cached.data]
          ELSE [q EXCEPT !.pc = "fetch", !.cached = cached, !.branch = "miss"]
  /\ UNCHANGED << apiCache, serviceVars, functionVars >>

\* axios.get settles (lines 44-52): data is the response's data, "" stands
\* for a rejection.
ApiFetchSettles(data) ==
  /\ apiReq.pc = "fetch"
  /\ IF data # ""
     THEN /\ apiCache' = [apiCache EXCEPT ![apiReq.key] =
                            CacheEntry(apiReq.now + apiDefaultTtlMs, data)]
          /\ apiReq' = [apiReq EXCEPT !.pc = "returned", !.result = data]
     ELSE /\ apiCache' = apiCache
          /\ apiReq' = [apiReq EXCEPT !.pc = "threw",
                          !.error = InternalServerErrorException("Failed to fetch dividends")]
  /\ UNCHANGED << serviceVars, functionVars >>

(***************************************************************************)
(* Spec: direct calls of getDividendHistory, one after the other, with and *)
(* without an output directory.  A call starts when the one before has     *)
(* settled; time passes between any two steps; a write may fail.           *)
(***************************************************************************)

\* The clock stops at MaxClock.
MaxClock == 6

\* The lengths of time that pass in one step.
TickSteps == {3}

Responses == { Fetched(DocOld), Fetched(DocNew), Fetched(DocNoPay),
               Fetched(DocTwice), Fetched(DocPlain), Fetched(DocNoRows),
               NotFound404, ServerError500, TimedOut, NoMessage }

InitWith(slots) ==
  /\ clock = 0
  /\ cache = [ k \in CacheKeys |-> NoEntry ]
  /\ files = [ p \in FilePaths |-> Missing ]
  /\ req = [ r \in slots |-> IdleRequest ]
  /\ lastHarvest = [ k \in CacheKeys |-> -1 ]
  /\ apiCache = [ k \in ApiKeys |-> NoEntry ]
  /\ apiReq = ApiIdle
  /\ input = <<>>
  /\ output = <<>>

Init == InitWith({1})

Next ==
  \/ \E ticker \in {SPY, spy, <<>>}, outputDir \in {NoOutputDir, BatchDir} :
       GetDividendHistory(1, ticker, outputDir)
  \/ \E response \in Responses : FetchSettles(1, response)
  \/ AccessSettles(1)
  \/ ReadSettles(1, TRUE)
  \/ \E written \in BOOLEAN : SaveSettles(1, written)
  \/ \E written \in BOOLEAN : HitSaveSettles(1, written)
  \/ \E d \in TickSteps : Tick(d, MaxClock)

Spec == Init /\ [][Next]_vars

(***************************************************************************)
(* Properties of the request pipeline, checked under Spec.                 *)
(***************************************************************************)

\* The data rows of a history file: its lines after the header line.
DataRows(content) ==
  IF content = Missing THEN {}
  ELSE LET lines == Split(content, "\n")
       IN { lines[i] : i \in 2..Len(lines) }

\* C1.  Append-only storage: a row that is in a ticker's file is still in
\* that file after every later step of the pipeline; no run removes or
\* replaces a persisted row.
AppendOnlyStorage ==
  [][\A p \in FilePaths : DataRows(files[p]) \subseteq DataRows(files'[p])]_vars

\* Newest first with no date twice: each record's date sorts after the next
\* one's, and the two differ.
StrictlyDescending(history) ==
  \A i \in 1..(Len(history) - 1) :
    /\ localeCompare(history[i].exDividendDate, history[i + 1].exDividendDate) > 0
    /\ history[i].exDividendDate # history[i + 1].exDividendDate

\* C4.  TickerHistory invariant: every history in a ticker's file or in the
\* cache is in strictly descending order of exDividendDate, no date twice.
HistoriesStrictlyDescending ==
  /\ \A k \in CacheKeys : cache[k].present => StrictlyDescending(cache[k].data)
  /\ \A p \in FilePaths :
       files[p] # Missing => StrictlyDescending(parseCsvContent(files[p]))

\* The step of request r in which saveToCsv settles on the miss path.
SaveStep(r) == req[r].pc = "save" /\ req'[r].pc # "save"

\* C5.  Merge idempotence in the pipeline: a run whose harvest holds no
\* record newer than the cutoff (the date of the first record read from the
\* ticker's file) leaves the file as it was.
NothingNewerLeavesFileUnchanged ==
  [][\A r \in DOMAIN req :
       LET q == req[r]
           p == FilePathOf(toUpperCase(q.ticker), q.outputDir)
           existing == IF files[p] = Missing THEN <<>> ELSE parseCsvContent(files[p])
       IN ( /\ SaveStep(r)
            /\ existing # <<>>
            /\ \A i \in 1..Len(q.dividends) :
                 ~StrGreater(q.dividends[i].exDividendDate, existing[1].exDividendDate) )
          => files'[p] = files[p]]_vars

\* The cache key of each ticker of the model, written out.
KeyOfTicker(ticker) == IF ticker \in {SPY, spy} THEN SPY ELSE QQQ

\* The step of request r in which getDividendHistory looks a ticker up in
\* the cache: a call starts, or the batch loop goes on to its next ticker.
\* The lookup sees the cache and the clock as they are after the step.
LookupStep(r) ==
  /\ req'[r] # req[r]
  /\ req'[r].branch # ""
  /\ \/ Settled(req[r])
     \/ /\ req'[r].kind = "batch"
        /\ req'[r].i = req[r].i + 1
        /\ req'[r].i <= Len(req'[r].tickers)

\* The lookup of this step was a hit that used the data of entry e.
ServedFrom(r, e) ==
  /\ req'[r].branch = "hit"
  /\ req'[r].pc # "fetch"
  /\ req'[r].cached.data = e.data
  /\ (req'[r].kind = "single" /\ req'[r].pc = "returned") => req'[r].result = e.data

\* C7 as claimed.  After a successful harvest for a ticker at time t (the
\* time its entry was stored), every later request for the ticker, in any
\* letter case, that is looked up while now < t + 1 hour does no fetch and
\* returns the stored history.
NoFetchWithinHourOfHarvest ==
  [][\A r \in DOMAIN req :
       LET k == KeyOfTicker(req'[r].ticker)
       IN ( /\ LookupStep(r)
            /\ lastHarvest'[k] >= 0
            /\ clock' < lastHarvest'[k] + defaultTtlMs )
          => ServedFrom(r, cache'[k])]_vars

\* C7 as amended.  Every request for a ticker, in any letter case, that is
\* looked up while now < expiresAt of the ticker's entry does no fetch and
\* returns the stored history; a fetch happens only on a miss; and
\* expiresAt is one hour after the start of the request that stored the
\* entry, which is no later than one hour after the harvest.
NoFetchWhileEntryFresh ==
  [][\A r \in DOMAIN req :
       LET k == KeyOfTicker(req'[r].ticker)
           e == cache'[k]
       IN /\ (LookupStep(r) /\ e.present /\ clock' < e.expiresAtMs)
               => ServedFrom(r, e)
          /\ (LookupStep(r) /\ req'[r].pc = "fetch")
               => ~(e.present /\ clock' < e.expiresAtMs)
          /\ (req[r].pc # "fetch" /\ req'[r].pc = "fetch") => LookupStep(r)
          /\ SaveStep(r) =>
               LET s == KeyOfTicker(req[r].ticker)
               IN /\ cache'[s].present
                  /\ cache'[s].expiresAtMs = req[r].now + defaultTtlMs
                  /\ cache'[s].expiresAtMs <= lastHarvest'[s] + defaultTtlMs]_vars

\* Witness of C7: a lower-case request is being served from the entry that
\* an upper-case request stored earlier.
LowerCaseServedFromCache ==
  /\ req[1].ticker = spy
  /\ req[1].branch = "hit"
  /\ req[1].pc = "returned"
  /\ cache[SPY].present
  /\ req[1].result = cache[SPY].data
  /\ clock > lastHarvest[SPY]

IsNotFound(e) ==
  e.name = "BadRequestException"
    /\ e.message = "ETF ticker not found on stockanalysis.com"

IsExtractionFailed(e) ==
  e.name = "InternalServerErrorException"
    /\ e.message = "Could not find dividend history table on the page"

IsUpstreamError(e) ==
  e.name = "InternalServerErrorException"
    /\ e.message # "Could not find dividend history table on the page"

\* C10.  Harvest error classification: a request that missed the cache and
\* whose fetch has settled fails with NotFound exactly when the response
\* was HTTP 404, with ExtractionFailed exactly when a document came and
\* neither strategy kept a row, with UpstreamError exactly on every other
\* rejection; and a request that extracted a row does not fail.
HarvestErrorClassification ==
  \A r \in DOMAIN req :
    LET q == req[r]
        resp == q.response
        noRows == primaryExtraction(resp.doc) = <<>> /\ fallbackExtraction(resp.doc) = <<>>
    IN (q.kind = "single" /\ q.branch = "miss" /\ resp # NoResponse) =>
         /\ (q.pc = "threw" /\ IsNotFound(q.error)) <=> (~resp.ok /\ resp.status = 404)
         /\ (q.pc = "threw" /\ IsExtractionFailed(q.error)) <=> (resp.ok /\ noRows)
         /\ (q.pc = "threw" /\ IsUpstreamError(q.error)) <=> (~resp.ok /\ resp.status # 404)
         /\ (resp.ok /\ ~noRows) => q.pc # "threw"

\* Witness of C10: a request has failed with NotFound on a 404.
FailedWithNotFound ==
  /\ req[1].pc = "threw"
  /\ req[1].branch = "miss"
  /\ req[1].response = NotFound404
  /\ IsNotFound(req[1].error)

(***************************************************************************)
(* SpecMerge: mergeDividends as a function.  Init draws an existing        *)
(* history and a harvested list; the one action applies the function.      *)
(***************************************************************************)

\* The longest existing history and the longest harvested list drawn.
MaxExisting == 2
MaxHarvested == 3

Sep == formatDateToIso(Sep1)
Oct == formatDateToIso(Oct1)
Nov == formatDateToIso(Nov1)

\* Date cells that new Date() cannot parse stay as they are on the page.
NotAvailable == << "N", "/", "A" >>
notAvailable == << "n", "/", "a" >>

\* The records drawn: three dated ones, a second one for October with
\* another amount, and two whose date is not a date.
MergeRecords ==
  { Dividend(Sep, Amount50, Sep, Sep), Dividend(Oct, Amount50, Oct, Oct),
    Dividend(Oct, Amount75, Oct, Oct), Dividend(Nov, Amount75, Nov, Nov),
    Dividend(NotAvailable, Amount50, NotAvailable, NotAvailable),
    Dividend(notAvailable, Amount50, notAvailable, notAvailable) }

ListsUpTo(n) == UNION { [1..k -> MergeRecords] : k \in 0..n }

NotCalled == [called |-> FALSE, value |-> <<>>]

MergeInit ==
  /\ clock = 0
  /\ cache = [ k \in CacheKeys |-> NoEntry ]
  /\ files = [ p \in FilePaths |-> Missing ]
  /\ req = [ r \in {1} |-> IdleRequest ]
  /\ lastHarvest = [ k \in CacheKeys |-> -1 ]
  /\ apiCache = [ k \in ApiKeys |-> NoEntry ]
  /\ apiReq = ApiIdle
  /\ \E existing \in ListsUpTo(MaxExisting), harvested \in ListsUpTo(MaxHarvested) :
       input = [existing |-> existing, harvested |-> harvested]
  /\ output = NotCalled

MergeDividends ==
  /\ ~output.called
  /\ output' = [called |-> TRUE,
                value |-> mergeDividends(input.existing, input.harvested)]
  /\ UNCHANGED << serviceVars, apiVars, input >>

MergeNext == MergeDividends

SpecMerge == MergeInit /\ [][MergeNext]_vars

\* How many times record d is in list.
Count(d, list) == Cardinality({ i \in 1..Len(list) : list[i] = d })

\* Descending in the order of the service's sorts: no record is followed
\* by one whose date localeCompare puts after its own.
SortedDescending(list) ==
  \A i \in 1..(Len(list) - 1) :
    localeCompare(list[i].exDividendDate, list[i + 1].exDividendDate) >= 0

\* C2.  Cutoff filter of merge: for a non-empty existing history, the
\* result holds exactly the records of existing plus the harvested records
\* whose exDividendDate is greater, as strings compare, than the date of
\* existing[0]; a harvested record dated at or below the cutoff is not
\* admitted.
MergeAdmitsExactlyNewer ==
  (output.called /\ input.existing # <<>>) =>
    LET cutoff == input.existing[1].exDividendDate
        admitted == { i \in 1..Len(input.harvested) :
                        StrGreater(input.harvested[i].exDividendDate, cutoff) }
    IN /\ Len(output.value) = Len(input.existing) + Cardinality(admitted)
       /\ \A d \in MergeRecords :
            Count(d, output.value)
              = Count(d, input.existing)
                  + Cardinality({ i \in admitted : input.harvested[i] = d })

\* Witness of C2: existing holds October; October again, November and
\* September are harvested; the result is November, then October.
MergeKeepsOnlyNovember ==
  /\ output.called
  /\ input.existing = << Dividend(Oct, Amount50, Oct, Oct) >>
  /\ input.harvested = << Dividend(Oct, Amount75, Oct, Oct),
                          Dividend(Nov, Amount75, Nov, Nov),
                          Dividend(Sep, Amount50, Sep, Sep) >>
  /\ output.value = << Dividend(Nov, Amount75, Nov, Nov),
                       Dividend(Oct, Amount50, Oct, Oct) >>

MaxCacheClock == 6

SpyKey == "SPY|2025-01-01|2025-12-31"

CacheNext ==
  \/ GetDividendHistory(1, SPY, BatchDir)
  \/ FetchSettles(1, Fetched(DocOld))
  \/ AccessSettles(1)
  \/ ReadSettles(1, TRUE)
  \/ SaveSettles(1, TRUE)
  \/ HitSaveSettles(1, TRUE)
  \/ GetDividends(SpyKey, TRUE)
  \/ \E data \in {"", "d1"} : ApiFetchSettles(data)
  \/ Tick(1, MaxCacheClock)

SpecCache == Init /\ [][CacheNext]_vars

\* The step in which getDividends looks its key up in the cache.
ApiLookupStep ==
  apiReq' # apiReq /\ apiReq.pc # "fetch" /\ apiReq'.branch # ""

\* The step of request r in which the save of a cache hit settles.
HitSaveStep(r) == req[r].pc = "hitSave" /\ req'[r].pc # "hitSave"

\* C6.  Cache expiry: a lookup is a hit, and gives the stored history
\* unchanged, exactly while now < expiresAt; at now >= expiresAt it is a
\* miss that goes on to fetch; what a hit writes to storage and returns is
\* the data of the entry that was fresh at the lookup.  The same holds for
\* the cache of getDividends.
CacheExpiry ==
  [][/\ \A r \in DOMAIN req :
          LET e == cache'[KeyOfTicker(req'[r].ticker)]
              fresh == e.present /\ clock' < e.expiresAtMs
          IN /\ (LookupStep(r) /\ fresh) => ServedFrom(r, e)
             /\ (LookupStep(r) /\ ~fresh) =>
                  req'[r].branch = "miss" /\ req'[r].pc = "fetch"
             /\ HitSaveStep(r) =>
                  LET q == req[r]
                      p == FilePathOf(toUpperCase(q.ticker), q.outputDir)
                  IN /\ q.cached.present /\ q.now < q.cached.expiresAtMs
                     /\ files'[p] \in {files[p], csvContent(q.cached.data)}
                     /\ \A o \in FilePaths \ {p} : files'[o] = files[o]
                     /\ req'[r].kind = "single" => req'[r].result = q.cached.data
     /\ ApiLookupStep =>
          LET e == apiCache[apiReq'.key]
              fresh == e.present /\ clock < e.expiresAtMs
          IN /\ fresh => /\ apiReq'.pc = "returned"
                         /\ apiReq'.branch = "hit"
                         /\ apiReq'.result = e.data
             /\ ~fresh => apiReq'.pc = "fetch" /\ apiReq'.branch = "miss"]_vars

\* Witness of C6: in each cache a lookup made at the very time its entry
\* expires has missed.
LookupAtExpiryMissed ==
  /\ req[1].branch = "miss"
  /\ req[1].cached.present
  /\ req[1].now = req[1].cached.expiresAtMs
  /\ apiReq.branch = "miss"
  /\ apiReq.cached.present
  /\ apiReq.now = apiReq.cached.expiresAtMs

(***************************************************************************)
(* SpecBatch: processTickersFromCsv on each manifest and single-ticker     *)
(* calls into the batch directory, one after the other, every ticker's     *)
(* fetch succeeding or failing.                                            *)
(***************************************************************************)

BatchResponses ==
  { Fetched(DocOld), Fetched(DocNoRows), NotFound404, NoMessage }

BatchNext ==
  \/ \E csvFilePath \in DOMAIN ManifestFiles :
       ProcessTickersFromCsv(1, csvFilePath, BatchDir)
  \/ GetDividendHistory(1, spy, BatchDir)
  \/ \E response \in BatchResponses : FetchSettles(1, response)
  \/ AccessSettles(1)
  \/ ReadSettles(1, TRUE)
  \/ \E written \in BOOLEAN : SaveSettles(1, written)
  \/ \E written \in BOOLEAN : HitSaveSettles(1, written)
  \/ \E d \in TickSteps : Tick(d, MaxClock)

SpecBatch == Init /\ [][BatchNext]_vars

\* The tickers each manifest of the model lists, read off its text.
ManifestTickers(csvFilePath) ==
  CASE csvFilePath = "three.csv" -> << SPY, QQQ, spy >>
    [] csvFilePath = "one.csv" -> << SPY >>
    [] OTHER -> <<>>

\* The manifests that cannot be read or have no second non-blank line.
InvalidManifests == { "header.csv", "empty.csv", "absent.csv" }

\* C8.  Batch failure isolation and ordering: a batch returns one outcome
\* per manifest ticker, in manifest order and with the manifest's text; the
\* outcome of a ticker whose getDividendHistory threw has success = false
\* and a non-empty error, every other outcome has success = true; a
\* ticker's error never ends the batch, and every ticker is processed.
BatchOutcomesFollowManifest ==
  \A r \in DOMAIN req :
    LET q == req[r]
        expected == ManifestTickers(q.csvFilePath)
    IN q.kind = "batch" =>
         /\ q.csvFilePath \notin InvalidManifests =>
              /\ q.pc # "threw"
              /\ q.tickers = expected
         /\ Len(q.results) = Len(q.log)
         /\ Len(q.results) <= Len(expected)
         /\ \A i \in 1..Len(q.results) :
              /\ q.results[i].ticker = expected[i]
              /\ q.log[i].ticker = expected[i]
              /\ q.results[i].success = ~q.log[i].threw
              /\ ~q.results[i].success => q.results[i].error # ""
         /\ q.pc = "returned" =>
              /\ Len(q.results) = Len(expected)
              /\ q.result = q.results

\* Witness of C8: of the three tickers of a manifest the second failed and
\* the batch returned three outcomes.
SecondOfThreeFailed ==
  /\ req[1].kind = "batch"
  /\ req[1].pc = "returned"
  /\ Len(req[1].result) = 3
  /\ req[1].result[1] = [ticker |-> SPY, success |-> TRUE]
  /\ ~req[1].result[2].success
  /\ req[1].result[2].ticker = QQQ
  /\ req[1].result[3] = [ticker |-> spy, success |-> TRUE]

\* The step in which request r calls processTickersFromCsv.
BatchStarts(r) ==
  Settled(req[r]) /\ req'[r] # req[r] /\ req'[r].kind = "batch"

\* C9.  Invalid manifest: a batch on a manifest that cannot be read or has
\* fewer than two lines throws a BadRequestException at once, no ticker is
\* harvested, no file is written and no cache entry is made; a batch on a
\* manifest with a header and a data row never ends that way.
InvalidManifestRejected ==
  [][\A r \in DOMAIN req :
       /\ (BatchStarts(r) /\ req'[r].csvFilePath \in InvalidManifests) =>
            /\ req'[r].pc = "threw"
            /\ req'[r].error.name = "BadRequestException"
            /\ req'[r].log = <<>>
            /\ req'[r].results = <<>>
            /\ cache' = cache
            /\ files' = files
       /\ (req'[r].kind = "batch" /\ req'[r].pc = "threw") =>
            BatchStarts(r) \/ req'[r] = req[r]
       /\ (req'[r].kind = "batch" /\ req'[r].csvFilePath \notin InvalidManifests) =>
            req'[r].pc # "threw"]_vars

\* Witness of C9: a batch on a manifest that holds the header alone has
\* thrown, after an earlier batch had stored a history.
HeaderOnlyManifestThrew ==
  /\ req[1].kind = "batch"
  /\ req[1].csvFilePath = "header.csv"
  /\ req[1].pc = "threw"
  /\ req[1].error.name = "BadRequestException"
  /\ cache[SPY].present

\* The file a request's ticker is kept in.
FileOf(q) == FilePathOf(toUpperCase(q.ticker), q.outputDir)

\* The step of request r settled a getDividendHistory call without a
\* throw, with history as its value: a single-ticker request returned it,
\* a batch recorded success = true for the ticker.
Delivered(r, history) ==
  LET q == req[r]
      n == req'[r]
  IN /\ Len(n.log) = Len(q.log) + 1
     /\ ~n.log[Len(n.log)].threw
     /\ q.kind = "single" => (n.pc = "returned" /\ n.result = history)
     /\ q.kind = "batch" =>
          /\ Len(n.results) = Len(q.results) + 1
          /\ n.results[Len(n.results)] = [ticker |-> q.ticker, success |-> TRUE]

\* C11.  Persistence-write failure is non-fatal: when the write of a
\* ticker's file fails, on the miss path or on the cache-hit path, the
\* request still returns the in-memory history without raising, and in a
\* batch the ticker's outcome is success = true.
WriteFailureNotFatal ==
  [][\A r \in DOMAIN req :
       LET q == req[r]
       IN /\ (SaveStep(r) /\ files'[FileOf(q)] # csvContent(q.finalDividends))
               => Delivered(r, q.finalDividends)
          /\ (HitSaveStep(r) /\ files'[FileOf(q)] # csvContent(q.cached.data))
               => Delivered(r, q.cached.data)]_vars

\* Witness of C11: a batch of three tickers returned three successes, the
\* third from the cache, and no write had succeeded: no file is there.
BatchSucceededWithoutFiles ==
  /\ req[1].kind = "batch"
  /\ req[1].pc = "returned"
  /\ Len(req[1].result) = 3
  /\ \A i \in 1..3 : req[1].result[i].success
  /\ req[1].log[3].branch = "hit"
  /\ \A p \in FilePaths : files[p] = Missing

(***************************************************************************)
(* SpecRead: requests for one ticker whose file, before the first request, *)
(* is absent, empty, holds the header alone or holds a history; a read of  *)
(* the file may fail.                                                      *)
(***************************************************************************)

OctRecord == Dividend(Oct, Amount50, Oct, Oct)
SepRecord == Dividend(Sep, Amount50, Sep, Sep)
NovRecord == Dividend(Nov, Amount75, Nov, Nov)

\* What the ticker's file holds when the service starts.
FilesAtStart ==
  { Missing, <<>>, csvContent(<<>>), csvContent(<< OctRecord >>),
    csvContent(<< OctRecord, SepRecord >>) }

SpyFile == FilePathOf(SPY, BatchDir)

ReadInit ==
  /\ clock = 0
  /\ cache = [ k \in CacheKeys |-> NoEntry ]
  /\ \E content \in FilesAtStart :
       files = [ p \in FilePaths |-> IF p = SpyFile THEN content ELSE Missing ]
  /\ req = [ r \in {1} |-> IdleRequest ]
  /\ lastHarvest = [ k \in CacheKeys |-> -1 ]
  /\ apiCache = [ k \in ApiKeys |-> NoEntry ]
  /\ apiReq = ApiIdle
  /\ input = <<>>
  /\ output = <<>>

ReadNext ==
  \/ \E outputDir \in {BatchDir, NoOutputDir} :
       GetDividendHistory(1, SPY, outputDir)
  \/ \E response \in { Fetched(DocOld), Fetched(DocNew), NotFound404 } :
       FetchSettles(1, response)
  \/ AccessSettles(1)
  \/ \E readable \in BOOLEAN : ReadSettles(1, readable)
  \/ SaveSettles(1, TRUE)
  \/ HitSaveSettles(1, TRUE)
  \/ \E d \in TickSteps : Tick(d, MaxClock)

SpecRead == ReadInit /\ [][ReadNext]_vars

\* The records of the model's documents and files.
KnownRecords == MergeRecords \cup { extractDividends(DocNoPay)[1] }

\* list holds the records of harvested, each as often, newest first.
IsSortedHarvest(list, harvested) ==
  /\ SortedDescending(list)
  /\ Len(list) = Len(harvested)
  /\ \A d \in KnownRecords : Count(d, list) = Count(d, harvested)

\* The file of the request is not there, could not be read, or holds no
\* line after its header.
NoPriorData(q) ==
  \/ files[FileOf(q)] = Missing
  \/ q.readFailed
  \/ Len(NonBlankLines(files[FileOf(q)])) < 2

\* C12.  Read failure degrades to first-time save: when the ticker's file
\* is missing, unreadable or holds no data row, the request does not fail;
\* what it writes, caches and returns is exactly the harvested records
\* sorted descending by exDividendDate.
ReadFailureIsFirstTimeSave ==
  [][\A r \in DOMAIN req :
       LET q == req[r]
           harvested == extractDividends(q.response.doc)
       IN (SaveStep(r) /\ NoPriorData(q)) =>
            /\ IsSortedHarvest(q.finalDividends, harvested)
            /\ Delivered(r, q.finalDividends)
            /\ cache'[KeyOfTicker(q.ticker)].data = q.finalDividends
            /\ files'[FileOf(q)] = csvContent(q.finalDividends)]_vars

\* Witness of C12: the ticker's file was there and could not be read, and
\* the request returned and wrote the page's October and November records
\* newest first.
UnreadableFileReplaced ==
  /\ req[1].pc = "returned"
  /\ req[1].readFailed
  /\ req[1].existingData = <<>>
  /\ req[1].result = << NovRecord, OctRecord >>
  /\ files[SpyFile] = csvContent(<< NovRecord, OctRecord >>)
  /\ cache[SPY].data = << NovRecord, OctRecord >>

(***************************************************************************)
(* SpecFunctions: the service's pure functions, each applied once to an    *)
(* argument that Init draws.                                               *)
(***************************************************************************)

\* The longest history encoded.
MaxHistory == 2

\* Field texts: a date, an amount, the empty text, and texts with a comma,
\* a double quote and a newline inside.
FieldTexts ==
  { Oct, Amount50, <<>>, << "1", ",", "5" >>, << "5", "\"" >>,
    << "a", "\n", "b" >> }

\* Histories of records with one field at a time taken from FieldTexts.
CodecInputs ==
  LET records ==
        UNION { { Dividend(f, Amount50, Oct, Oct), Dividend(Oct, f, Oct, Oct),
                  Dividend(Oct, Amount50, f, Oct), Dividend(Oct, Amount50, Oct, f) }
                : f \in FieldTexts }
  IN { [fn |-> "codec", arg |-> h] :
         h \in UNION { [1..k -> records] : k \in 0..MaxHistory } }

\* Cell texts given to formatDateToIso: none, white space, dates of the
\* page with and without white space around them, a day past the end of
\* its month, a day that is none, years of two and of three digits, and
\* texts that are no date.
DateInputs ==
  { [fn |-> "date", arg |-> t] :
      t \in { <<>>, << " " >>, << "\n", " " >>, Oct1, << " " >> \o Nov1 \o << "\n" >>,
              << "F", "e", "b", " ", "3", "0", ",", " ", "2", "0", "2", "5" >>,
              << "D", "e", "c", " ", "3", "1", ",", " ", "2", "0", "2", "4" >>,
              << "O", "c", "t", " ", "3", "2", ",", " ", "2", "0", "2", "5" >>,
              << "O", "c", "t", " ", "1", ",", " ", "2", "5" >>,
              << "O", "c", "t", " ", "1", ",", " ", "9", "9", "9" >>,
              NotAvailable, << "-" >>, Amount50 } }

\* The most tables in a document.
MaxTables == 2

\* The body rows of a table: none; the two dividend rows of the page; one
\* of them; a row of two cells; rows that only the primary strategy keeps
\* (a date that is none, an amount that is none) after a dividend row.
TableRows ==
  { <<>>,
    << Row(Oct1, Amount50, Oct1, Oct1), Row(Sep1, Amount50, Sep1, Sep1) >>,
    << Row(Nov1, Amount75, Nov1, <<>>) >>,
    << << Oct1, Amount50 >> >>,
    << Row(Sep1, Amount50, Sep1, Sep1), Row(NotAvailable, Amount50, <<>>, <<>>) >>,
    << Row(Oct1, << "-" >>, Oct1, Oct1) >> }

\* Documents of up to MaxTables tables, each in a table-wrap container or
\* not.
ExtractInputs ==
  { [fn |-> "extract", arg |-> doc] :
      doc \in UNION { [1..k -> { Table(w, rows) : w \in BOOLEAN, rows \in TableRows }]
                      : k \in 0..MaxTables } }

FunctionInputs == CodecInputs \cup DateInputs \cup ExtractInputs

FunctionsInit ==
  /\ clock = 0
  /\ cache = [ k \in CacheKeys |-> NoEntry ]
  /\ files = [ p \in FilePaths |-> Missing ]
  /\ req = [ r \in {1} |-> IdleRequest ]
  /\ lastHarvest = [ k \in CacheKeys |-> -1 ]
  /\ apiCache = [ k \in ApiKeys |-> NoEntry ]
  /\ apiReq = ApiIdle
  /\ input \in FunctionInputs
  /\ output = NotCalled

\* saveToCsv's text of a history, decoded as readExistingCsv decodes it.
EncodeDecode ==
  /\ input.fn = "codec"
  /\ ~output.called
  /\ output' = [called |-> TRUE, value |-> parseCsvContent(csvContent(input.arg))]
  /\ UNCHANGED << serviceVars, apiVars, input >>

\* formatDateToIso applied to a cell text.
FormatDateToIso ==
  /\ input.fn = "date"
  /\ ~output.called
  /\ output' = [called |-> TRUE, value |-> formatDateToIso(input.arg)]
  /\ UNCHANGED << serviceVars, apiVars, input >>

\* The two extraction strategies applied to a fetched document.
ExtractDividends ==
  /\ input.fn = "extract"
  /\ ~output.called
  /\ output' = [called |-> TRUE, value |-> extractDividends(input.arg)]
  /\ UNCHANGED << serviceVars, apiVars, input >>

FunctionsNext == EncodeDecode \/ FormatDateToIso \/ ExtractDividends

SpecFunctions == FunctionsInit /\ [][FunctionsNext]_vars

\* C13.  Codec round-trip: for every history, with commas, double quotes
\* and newlines in its fields, decoding the text that encoding it gives
\* yields the same records, in the same order.
CodecRoundTrip ==
  (input.fn = "codec" /\ output.called) => output.value = input.arg

\* A zero-padded YYYY-MM-DD text of ten characters.
IsIsoDate(s) ==
  /\ Len(s) = 10
  /\ s[5] = "-" /\ s[8] = "-"
  /\ \A i \in {1, 2, 3, 4, 6, 7, 9, 10} : s[i] \in Digits
  /\ NumberOf(SubSeq(s, 6, 7)) \in 1..12
  /\ NumberOf(SubSeq(s, 9, 10)) \in 1..31

\* C17.  Date normalization is all-or-nothing: formatDateToIso returns an
\* empty or white-space-only text as given, and every other text either
\* exactly as given or as a zero-padded YYYY-MM-DD text of ten characters;
\* no other result is possible.
DateAllOrNothing ==
  (input.fn = "date" /\ output.called) =>
    /\ Trim(input.arg) = <<>> => output.value = input.arg
    /\ output.value = input.arg \/ IsIsoDate(output.value)

\* The rows with four cells, a "Mon DD, YYYY" first cell and a currency
\* second cell.
DividendRows ==
  { Row(Oct1, Amount50, Oct1, Oct1), Row(Sep1, Amount50, Sep1, Sep1),
    Row(Nov1, Amount75, Nov1, <<>>) }

\* doc with every table put in a table-wrap container, or taken out.
WithWrapper(doc, wrapped) == [ i \in DOMAIN doc |-> Table(wrapped, doc[i].rows) ]

\* C18.  Extraction fallback: the result is the primary strategy's rows
\* when it kept any and the fallback's rows otherwise, never rows of both;
\* and for a document whose table rows all have four cells, a date-shaped
\* first and a currency-shaped second cell, the records are the same with
\* its tables inside a table-wrap container and with its tables outside
\* one: every row of the document, in document order.
FallbackOnlyWhenPrimaryEmpty ==
  (input.fn = "extract" /\ output.called) =>
    LET doc == input.arg
        primary == primaryExtraction(doc)
    IN /\ primary # <<>> => output.value = primary
       /\ primary = <<>> => output.value = fallbackExtraction(doc)
       /\ ( /\ (\A t \in DOMAIN doc : \A j \in DOMAIN doc[t].rows :
                    doc[t].rows[j] \in DividendRows)
             /\ (\A u, v \in DOMAIN doc : doc[u].wrapped = doc[v].wrapped) )
            => /\ output.value = extractDividends(WithWrapper(doc, TRUE))
               /\ output.value = extractDividends(WithWrapper(doc, FALSE))
               /\ Len(output.value) = Len(RowsOf(doc))

\* Witness of C18: the page's table outside any container gave the two
\* records that the same table inside a container gives.
PlainTableExtracted ==
  /\ input = [fn |-> "extract", arg |-> DocPlain]
  /\ output.called
  /\ output.value = << OctRecord, SepRecord >>
  /\ output.value = primaryExtraction(DocOld)
  /\ primaryExtraction(DocPlain) = <<>>

(***************************************************************************)
(* SpecRace: two callers at once.  The first asks for SPY, the second for  *)
(* spy or QQQ; their steps interleave in every order.  The clock jumps     *)
(* once, to the time at which the entries stored before it expire.         *)
(***************************************************************************)

\* The clock of SpecRace stops at MaxRaceClock.
MaxRaceClock == 6

\* The first caller's page is the later or the first one; the second
\* caller's is the first one, or the upstream answers 404.
RaceNext ==
  \/ GetDividendHistory(1, SPY, BatchDir)
  \/ \E ticker \in {spy, QQQ} : GetDividendHistory(2, ticker, BatchDir)
  \/ \E response \in { Fetched(DocNew), Fetched(DocOld) } : FetchSettles(1, response)
  \/ \E response \in { Fetched(DocOld), NotFound404 } : FetchSettles(2, response)
  \/ \E r \in {1, 2} :
       \/ AccessSettles(r)
       \/ ReadSettles(r, TRUE)
       \/ SaveSettles(r, TRUE)
       \/ HitSaveSettles(r, TRUE)
       \/ WriteOpens(r)
  \/ Tick(defaultTtlMs, MaxRaceClock)

SpecRace == InitWith({1, 2}) /\ [][RaceNext]_vars

\* C14.  Same-ticker race, last writer wins: when two requests for one
\* ticker that both missed the cache have both finished, the ticker's
\* file holds exactly the history that one of them wrote, the one whose
\* write happened last, never a mixture of the two.
LastWriterWins ==
  ( /\ \A r \in {1, 2} : req[r].pc = "returned" /\ req[r].branch = "miss"
    /\ FileOf(req[1]) = FileOf(req[2]) )
  => files[FileOf(req[1])] \in { csvContent(req[1].result), csvContent(req[2].result) }

\* What belongs to ticker: its cache key and its files.
OwnKey(ticker, k) == toUpperCase(k) = toUpperCase(ticker)
OwnFile(ticker, p) == p.name = toLowerCase(ticker)

\* C15.  Per-ticker independence: under every interleaving, a step of a
\* request for ticker A, whether the request succeeds or fails, leaves the
\* cache entry and the files of every other ticker (letter case aside) as
\* they are; and what the request takes from the shared state, at its
\* cache lookup, at csvExists and at readExistingCsv, is A's own entry and
\* A's own file, so that its result is made of these and of its own page.
TickersIndependent ==
  [][\A r \in DOMAIN req :
       req'[r] # req[r] =>
         LET q == req[r]
             n == req'[r]
             own == [dir |-> BatchDir, name |-> toLowerCase(n.ticker)]
             harvested == extractDividends(n.response.doc)
         IN /\ \A k \in CacheKeys : ~OwnKey(n.ticker, k) => cache'[k] = cache[k]
            /\ \A p \in FilePaths : ~OwnFile(n.ticker, p) => files'[p] = files[p]
            /\ LookupStep(r) => n.cached = cache[toUpperCase(n.ticker)]
            /\ (q.pc = "access" /\ n.pc # "access") =>
                 n.csvFileExists = (files[own] # Missing)
            /\ (q.pc = "read" /\ n.pc # "read") =>
                 n.existingData = parseCsvContent(files[own])
            /\ (q.pc = "access" /\ n.pc = "save") =>
                 n.finalDividends = SortDescending(harvested)
            /\ (q.pc = "read" /\ n.pc = "save") =>
                 n.finalDividends = mergeDividends(n.existingData, harvested)
            /\ SaveStep(r) => n.result = q.finalDividends
            /\ HitSaveStep(r) => n.result = q.cached.data]_vars

\* Witness of C15: while a request for SPY is between its read and its
\* write, a request for QQQ has run from start to end and stored its own
\* entry and file; another, after that, has failed.
OtherTickerRanMeanwhile ==
  /\ req[1].pc = "save"
  /\ req[1].existingData # <<>>
  /\ req[2].ticker = QQQ
  /\ req[2].pc = "threw"
  /\ req[2].now > req[1].now
  /\ cache[QQQ].present
  /\ files[FilePathOf(QQQ, BatchDir)] = csvContent(cache[QQQ].data)

\* A batch is at one place: while it is in flight it runs the pipeline of
\* the ticker at position i, the outcomes of the i - 1 tickers before it
\* are recorded, and no other; outcomes stand in manifest order.
OneTickerAtATime(q) ==
  /\ ~Settled(q) =>
       /\ q.i \in 1..Len(q.tickers)
       /\ q.ticker = q.tickers[q.i]
       /\ Len(q.results) = q.i - 1
       /\ Len(q.log) = q.i - 1
  /\ q.pc = "returned" => Len(q.results) = Len(q.tickers)
  /\ \A j \in 1..Len(q.results) : q.results[j].ticker = q.tickers[j]

\* In this step the batch r goes on to a ticker that an earlier position
\* of its manifest named, in whatever letter case, and that succeeded there.
SecondOccurrenceStep(r) ==
  /\ LookupStep(r)
  /\ req'[r].kind = "batch"
  /\ \E j \in 1..Len(req'[r].results) :
       /\ req'[r].results[j].success
       /\ toUpperCase(req'[r].results[j].ticker) = toUpperCase(req'[r].ticker)

\* C16 as claimed.  Strictly sequential batch: at most one ticker's
\* pipeline of a batch is in flight, the fetch for position i + 1 starts
\* only after the outcome of position i is recorded, outcomes are in
\* manifest order, and a ticker that occurs a second time is served from
\* the cache when its first occurrence succeeded.
SequentialBatchSecondHits ==
  [][\A r \in DOMAIN req :
       req'[r].kind = "batch" =>
         /\ OneTickerAtATime(req'[r])
         /\ SecondOccurrenceStep(r) => req'[r].branch = "hit"]_vars

\* C16 as amended.  As above, but the second occurrence is served from
\* the cache exactly while the ticker's entry, which is there once the
\* first occurrence succeeded, has not expired: when the batch reaches it
\* at or after expiresAt, the ticker is fetched again.
SequentialBatch ==
  [][\A r \in DOMAIN req :
       req'[r].kind = "batch" =>
         /\ OneTickerAtATime(req'[r])
         /\ (req[r].pc # "fetch" /\ req'[r].pc = "fetch") =>
              (LookupStep(r) /\ Len(req'[r].results) = req'[r].i - 1)
         /\ SecondOccurrenceStep(r) =>
              LET e == cache'[toUpperCase(req'[r].ticker)]
              IN /\ e.present
                 /\ (req'[r].branch = "hit") <=> (clock' < e.expiresAtMs)]_vars

\* Witness of C16: a batch of SPY, QQQ and spy has returned three
\* successes in that order; SPY was fetched and spy, reached later but
\* within the hour, was served from the cache.
SecondOccurrenceServedFromCache ==
  /\ req[1].kind = "batch"
  /\ req[1].pc = "returned"
  /\ req[1].result = << SuccessOutcome(SPY), SuccessOutcome(QQQ), SuccessOutcome(spy) >>
  /\ req[1].log[1].branch = "miss"
  /\ req[1].log[2].branch = "miss"
  /\ req[1].log[3].branch = "hit"
  /\ clock = 3
  /\ lastHarvest[SPY] = 0

IsInvalidInput(e) ==
  e.name = "BadRequestException" /\ e.message = "ticker is required"

\* C19.  Failed request leaves state unchanged: a single-ticker request
\* that fails does so at its start (InvalidInput) or when its fetch
\* settles (NotFound, UpstreamError, ExtractionFailed); neither of its
\* steps changes a file or a cache entry, so both are what they were
\* before the request; an expired entry that its lookup found is still in
\* place, and a later lookup that finds it expired misses and fetches.
FailureLeavesStateUnchanged ==
  [][\A r \in DOMAIN req :
       LET q == req[r]
           n == req'[r]
       IN (n # q /\ n.kind = "single") =>
            /\ n.pc = "threw" =>
                 /\ cache' = cache /\ files' = files
                 /\ Settled(q) \/ q.pc = "fetch"
                 /\ \/ IsInvalidInput(n.error) /\ n.ticker = <<>>
                    \/ /\ n.ticker # <<>>
                       /\ n.branch = "miss"
                       /\ \/ IsNotFound(n.error)
                          \/ IsUpstreamError(n.error)
                          \/ IsExtractionFailed(n.error)
                       /\ cache'[toUpperCase(n.ticker)] = n.cached
            /\ n.pc = "fetch" =>
                 /\ cache' = cache /\ files' = files
                 /\ Settled(q)
            /\ ( /\ LookupStep(r)
                 /\ cache'[toUpperCase(n.ticker)].present
                 /\ clock' >= cache'[toUpperCase(n.ticker)].expiresAtMs )
               => n.branch = "miss" /\ n.pc = "fetch"]_vars

\* Witness of C19: a request that found the ticker's entry expired has
\* failed; the expired entry and the file written with it are in place.
FailedWithExpiredEntryInPlace ==
  /\ req[1].kind = "single"
  /\ req[1].pc = "threw"
  /\ req[1].cached.present
  /\ req[1].now >= req[1].cached.expiresAtMs
  /\ cache[SPY] = req[1].cached
  /\ files[FilePathOf(SPY, BatchDir)] = csvContent(cache[SPY].data)

\* The step of request r in which a lookup finds a fresh entry.
HitStep(r) == LookupStep(r) /\ req'[r].branch = "hit"

CopyNext ==
  \/ \E r \in {1, 2} : GetDividendHistory(r, SPY, BatchDir)
  \/ FetchSettles(1, Fetched(DocNew))
  \/ FetchSettles(2, Fetched(DocOld))
  \/ \E r \in {1, 2} :
       \/ AccessSettles(r)
       \/ ReadSettles(r, TRUE)
       \/ WriteOpens(r)
       \/ WriteLands(r)
       \/ SaveSettles(r, TRUE)
       \/ HitSaveSettles(r, TRUE)

SpecCopy == InitWith({1, 2}) /\ [][CopyNext]_vars

\* C21.  Cache is a copy of storage: when no request is in flight, every
\* write was a whole one (the file holds the text of a history that a
\* request wrote), the ticker's cache entry holds the history that the
\* file holds, also after two requests for the ticker ran at once.
CacheIsCopyOfStorage ==
  ( /\ \A r \in DOMAIN req : req[r].pc = "returned"
    /\ cache[SPY].present
    /\ \E r \in DOMAIN req : files[SpyFile] = csvContent(req[r].result) )
  => files[SpyFile] = csvContent(cache[SPY].data)

\* A record with its dates in canonical form or empty.
HasOptionalDates(d) ==
  /\ d.exDividendDate = Oct /\ d.cashAmount = Amount50
  /\ d.recordDate \in {Oct, <<>>} /\ d.payDate \in {Oct, <<>>}

\* C22.  Records with empty optional dates survive persistence: a history
\* whose records have an empty recordDate or payDate is, once written to a
\* file, read back from it whole, each record with its four fields; none
\* is skipped as a line of fewer than 4 values.
EmptyDatesSurvive ==
  ( /\ input.fn = "codec" /\ output.called
    /\ \A i \in 1..Len(input.arg) : HasOptionalDates(input.arg[i]) )
  => output.value = input.arg

\* C23.  Ticker canonicalization: whatever the letter case of a request's
\* ticker, its lookup reads the cache entry under the uppercased ticker and
\* hits when that entry is fresh; its save touches no cache entry but that
\* one and no file but the one named by the lowercased ticker in the
\* request's directory; the outcome a batch records for the ticker carries
\* the ticker as the manifest has it.
TickerCanonicalization ==
  [][\A r \in DOMAIN req :
       LET q == req[r]
           n == req'[r]
       IN /\ LookupStep(r) =>
               LET e == cache'[toUpperCase(n.ticker)]
               IN /\ n.cached = e
                  /\ (e.present /\ clock' < e.expiresAtMs) =>
                       /\ n.branch = "hit"
                       /\ n.cached.data = e.data
          /\ (SaveStep(r) \/ HitSaveStep(r)) =>
               /\ \A k \in CacheKeys \ {toUpperCase(q.ticker)} :
                    cache'[k] = cache[k]
               /\ \A p \in FilePaths \
                        {[dir |-> BaseDirOf(q.outputDir),
                          name |-> toLowerCase(q.ticker)]} :
                    files'[p] = files[p]
               /\ (SaveStep(r) /\ ~n.log[Len(n.log)].threw) =>
                    /\ cache'[toUpperCase(q.ticker)].present
                    /\ cache'[toUpperCase(q.ticker)].data = q.finalDividends
          /\ (n.kind = "batch" /\ Len(n.results) = Len(q.results) + 1) =>
               /\ n.results[Len(n.results)].ticker = q.ticker
               /\ q.ticker = q.tickers[q.i]
               /\ q.tickers = ManifestTickers(q.csvFilePath)]_vars

\* Witness of C23: a batch over SPY, QQQ, spy has returned; spy was served
\* from the entry SPY, which is the only entry of the two, and reported as
\* spy; the one file spy in the directory holds the harvest of SPY.
LowerCaseSharesEntryAndFile ==
  /\ req[1].kind = "batch"
  /\ req[1].pc = "returned"
  /\ Len(req[1].results) = 3
  /\ req[1].results[1] = SuccessOutcome(SPY)
  /\ req[1].results[3] = SuccessOutcome(spy)
  /\ req[1].log[1].branch = "miss"
  /\ req[1].log[3].branch = "hit"
  /\ cache[SPY].present
  /\ cache[spy] = NoEntry
  /\ files[FilePathOf(spy, BatchDir)] = csvContent(cache[SPY].data)
  /\ FilePathOf(spy, BatchDir) = FilePathOf(SPY, BatchDir)

(***************************************************************************)
(* A batch whose awaited operations all settle: axios.get (by its timeout  *)
(* of 15 s at the latest), access, readFile and writeFile.                 *)
(***************************************************************************)

SpecBatchFair ==
  /\ SpecBatch
  /\ WF_vars(\E response \in BatchResponses : FetchSettles(1, response))
  /\ WF_vars(AccessSettles(1))
  /\ WF_vars(ReadSettles(1, TRUE))
  /\ WF_vars(\E written \in BOOLEAN : SaveSettles(1, written))
  /\ WF_vars(\E written \in BOOLEAN : HitSaveSettles(1, written))

\* How far a getDividendHistory call has come.
PcRank(pc) ==
  CASE pc = "fetch" -> 1
    [] pc = "access" -> 2
    [] pc = "read" -> 3
    [] pc = "save" -> 4
    [] pc = "hitSave" -> 4
    [] OTHER -> 5

\* C24.  Batch termination without retries: a batch in flight returns;
\* each of its steps either goes forward within the harvest of the
\* current manifest entry, which so fetches at most once, or ends that
\* harvest with one outcome and goes to the next entry, also when the
\* harvest failed; there are never more attempts than entries.
BatchTerminatesWithoutRetries ==
  /\ [][\A r \in DOMAIN req :
          LET q == req[r]
              n == req'[r]
          IN (q.kind = "batch" /\ ~Settled(q) /\ n # q) =>
               /\ n.kind = "batch" /\ n.tickers = q.tickers
               /\ n.pc # "threw"
               /\ \/ /\ n.i = q.i
                     /\ PcRank(n.pc) > PcRank(q.pc)
                     /\ n.log = q.log /\ n.results = q.results
                  \/ /\ n.i = q.i + 1
                     /\ Len(n.log) = Len(q.log) + 1
                     /\ Len(n.results) = q.i
                     /\ n.pc = "returned" <=> q.i = Len(q.tickers)
               /\ Len(n.log) <= Len(n.tickers)]_vars
  /\ \A r \in {1} :
       (req[r].kind = "batch" /\ ~Settled(req[r]))
         ~> (req[r].kind = "batch" /\ req[r].pc = "returned"
               /\ Len(req[r].results) = Len(req[r].tickers))

\* Witness of C24: a batch of three has returned after its second ticker
\* failed; it made three attempts, one for each entry.
BatchReturnedAfterFailure ==
  /\ req[1].kind = "batch"
  /\ req[1].pc = "returned"
  /\ Len(req[1].tickers) = 3
  /\ Len(req[1].log) = 3
  /\ req[1].log[2].threw
  /\ ~req[1].results[2].success
  /\ req[1].results[3].success

====
